---- MODULE Spec2Model ----
(***************************************************************************)
(* State-machine model of the speaking-practice application:               *)
(*   - App (src/unnamed/part_000): the session machine, its step, config,  *)
(*     result, held recording and the in-flight Analyzer calls;            *)
(*   - Stage (src/unnamed/part_004, lines 1-419): the recording            *)
(*     controller and its media capture graph;                             *)
(*   - historyService (src/unnamed/part_004, lines 421-444).               *)
(*                                                                         *)
(* React is modelled as follows.  A handler (click, timer callback,        *)
(* promise continuation, recorder event) is one atomic action.  A passive  *)
(* effect that reacts to the committed state (the end of the preparation   *)
(* countdown, the automatic stop) is an action of its own, and it is       *)
(* urgent: React flushes the pending effects of a commit before it renders *)
(* any later update, so while such an effect is pending no other handler   *)
(* that updates the Stage is taken (the recorder's stop event, which reads *)
(* no Stage state, and the Cancel click, which only unmounts, are not      *)
(* held back).  A one-second interval is active exactly when    *)
(* the condition of the effect that creates it holds, because the effect   *)
(* is re-run (and its interval cleared) on every change of its             *)
(* dependencies.  The Stage component is mounted exactly while             *)
(* step = "STAGE"; its state is kept in the Stage variables and reset to   *)
(* NoStage values when it is unmounted.  What an unmounted instance left   *)
(* behind (a pending device request, a pending recorder stop event,        *)
(* resources its cleanup did not release) is kept in ghostGum, stops and   *)
(* orphan.                                                                 *)
(*                                                                         *)
(* The effects of App that depend on isAnalyzing (tip selection, progress  *)
(* reset, the two intervals) are one urgent action, AnalyzingEffect, due   *)
(* after the commit in which isAnalyzing became true (effectDue); the      *)
(* intervals exist while isAnalyzing holds and the effect has run.         *)
(*                                                                         *)
(* The library functions are applied by actions of their own under their   *)
(* own specifications: historyService on every kind of stored content      *)
(* (HistorySpec) and the pace computation of analyzeSpeech                 *)
(* (src/services/geminiService.ts) on transcripts, languages and           *)
(* durations (PaceSpec).  The codec negotiation of the Stage               *)
(* (getSupportedMimeType, the recorder options, the blob type) is applied  *)
(* on every set of encodings a runtime may support (CodecSpec).            *)
(*                                                                         *)
(* The intervals of the two timer effects of the Stage are counted as they *)
(* are created and cleared (prepTimers, recTimers), next to the conditions *)
(* under which the ticks are taken.                                        *)
(*                                                                         *)
(* SessionSetup (src/unnamed/part_002) is mounted while step = "SETUP".    *)
(* Its topic page is modelled under TopicSpec: the calls of generateTopic  *)
(* in flight are kept in requests and answered in any order, a topic being *)
(* identified with the request it answers; the effect that calls           *)
(* fetchTopic is part of the handler whose update triggers it.  The other  *)
(* specifications start a session from the configs of Configs and leave    *)
(* the state of SessionSetup at its initial values.                        *)
(***************************************************************************)
EXTENDS Integers, Sequences, FiniteSets, TLC

\* ------------------------------------------------------------------ bounds
MaxGhostGum == 1    \* device requests of unmounted Stage instances still pending
MaxRecs == 2        \* recordings started in one run
MaxExtends == 1     \* clicks on "+15s" per Stage instance
MaxAppends == 25    \* calls of saveHistoryItem in one run of HistorySpec
MaxWriteFailures == 1  \* of which the write fails
MaxLen == 3         \* characters of a transcript in PaceSpec
MaxChunks == 2      \* dataavailable events counted in chunksRef
MaxRequests == 3    \* calls of generateTopic by one SessionSetup instance

\* ------------------------------------------------------- program constants
ExtendSeconds == 15
HistoryCap == 20
NULL == 0
NumTips == 30                \* SPEECH_TIPS.length
TipsShown == 5               \* shuffled.slice(0, 5)
TotalTime == 45000           \* totalTime, ms
Tick == 100                  \* tick, ms
HoldAt == 99                 \* if (prev >= 99) return 99

\* ------------------------------------------------------------ input domains
Modes == {"SPEECH"}           \* the modes of the sessions started in this model
SessionModes == {"SPEECH", "EXPRESS", "DEBATE", "COMEDY"}   \* MODES of Onboarding
INTERESTS == {"Technology", "Humor"}       \* two of the entries of INTERESTS
Results == {1, 2}            \* identities of the AnalysisResults the Analyzer may return
ClockDeltas == {0, 1}        \* Date.now() - startTime, in seconds (0: not positive)
COMEDY_THEMES == {"Parenting", "Workplace"}   \* two of the entries of COMEDY_THEMES

OverallScore(r) == 40 + 10 * r
Wpm(r) == 100 + r
Sentiment(r) == 2 * r

VARIABLES
  \* App
  step, userPrefs, sessionConfig, analysisResult, currentAudioBlob,
  recordedDuration, isAnalyzing,
  \* Onboarding (the mounted instance)
  selectedInterests, selectedMode,
  \* the Analyzer calls in flight and the persisted history
  calls, history,
  \* Stage (the mounted instance)
  isPrep, prepTimeLeft, timeLeft, isRecording, isReady,
  media, tracks, audioCtx, raf, recorder,
  \* Stage: chunksRef (its length), startTimeRef (the recording the stamp was
  \* taken for, 0 before any), the alert the instance has raised, and the live
  \* one-second intervals created by the prep and the recording timer effect
  chunks, startTime, notice, prepTimers, recTimers,
  \* what outlives a Stage instance
  stops, ghostGum, orphan,
  \* App, the analysis overlay: progress is kept as progress * (totalTime / tick)
  progress, activeTips, currentTipIndex, effectDue,
  \* what localStorage holds under STORAGE_KEY, other than a list (see history)
  store,
  \* the inputs and the output of the pace computation
  pace,
  \* the runtime's encodings and the outcome of the codec negotiation
  codec,
  \* SessionSetup (the mounted instance): a topic is the request it answers
  setupStep, topic, isCustomTopic, loading, comedyTheme,
  \* the generateTopic calls in flight and the number of calls issued
  requests, issued,
  \* bookkeeping of the run (not program state)
  ev, extends, recTicks, nRecs, finished, appendLog

onbVars == <<selectedInterests, selectedMode>>
appVars == <<step, userPrefs, sessionConfig, analysisResult, currentAudioBlob,
             recordedDuration, isAnalyzing, onbVars>>
refVars == <<chunks, startTime, notice>>
timerVars == <<prepTimers, recTimers>>
stageVars == <<isPrep, prepTimeLeft, timeLeft, isRecording, isReady,
               media, tracks, audioCtx, raf, recorder, refVars, timerVars>>
bookVars == <<extends, recTicks, finished>>
overlayVars == <<progress, activeTips, currentTipIndex>>
setupVars == <<setupStep, topic, isCustomTopic, loading, comedyTheme, requests, issued>>
libVars == <<pace, appendLog, codec, setupVars>>
vars == <<appVars, calls, history, stageVars, stops, ghostGum, orphan,
          ev, bookVars, nRecs, overlayVars, effectDue, store, libVars>>

\* the configs SessionSetup.handleStart can build: one that starts immediately and
\* one with a preparation time, with different topics and durations
Configs ==
  { [topic |-> "t1", mode |-> m, durationSeconds |-> 1, prepTimeSeconds |-> 0] : m \in Modes }
  \cup
  { [topic |-> "t2", mode |-> m, durationSeconds |-> 2, prepTimeSeconds |-> 2] : m \in Modes }

\* useState initial value of sessionConfig
InitialConfig == [topic |-> "", mode |-> "SPEECH", durationSeconds |-> 60,
                  prepTimeSeconds |-> 0]

\* ------------------------------------------------------------ Stage helpers

\* variant: the initial phase compared with >= instead of >
InitIsPrepAlways(config) == config.prepTimeSeconds >= 0

\* useState(config.prepTimeSeconds > 0)
InitIsPrep(config) == config.prepTimeSeconds > 0

\* prep timer effect: the interval exists while isPrep && prepTimeLeft > 0
PrepTimerActive == step = "STAGE" /\ isPrep /\ prepTimeLeft > 0

\* variant: a prep timer effect without its else branch
PrepDoneNever == FALSE

\* prep timer effect, else branch: isPrep && prepTimeLeft === 0 -> setIsPrep(false)
PrepDonePending == step = "STAGE" /\ isPrep /\ prepTimeLeft = 0

\* variant: the recording interval guarded by timeLeft > 0 alone
RecTimerWhenever == step = "STAGE" /\ timeLeft > 0

\* recording timer effect: the interval exists while !isPrep && isRecording && timeLeft > 0
RecTimerActive == step = "STAGE" /\ ~isPrep /\ isRecording /\ timeLeft > 0

\* variant: no auto-stop effect
AutoStopNever == FALSE

\* auto-stop effect: !isPrep && timeLeft === 0 && isRecording -> stopRecording()
AutoStopPending == step = "STAGE" /\ ~isPrep /\ timeLeft = 0 /\ isRecording

\* an effect of the last commit has not run yet
EffectPending == PrepDonePending \/ AutoStopPending \/ effectDue

\* the Add Time button: rendered in the main view, disabled unless isRecording
AddTimeEnabled == step = "STAGE" /\ ~isPrep /\ isRecording

\* variant: a Record button that is also offered during the preparation
StartEnabledInPrep == step = "STAGE" /\ ~isRecording /\ isReady

\* the Record button: rendered in the main view while !isRecording, disabled unless isReady
StartEnabled == step = "STAGE" /\ ~isPrep /\ ~isRecording /\ isReady

\* the Stop button: rendered in the main view while isRecording
StopEnabled == step = "STAGE" /\ ~isPrep /\ isRecording

\* the Cancel (X) button: rendered only in the prep overlay
CancelEnabled == step = "STAGE" /\ isPrep

\* variant: an extension that caps the remaining time at 15
AddTimeCapped(prev) ==
  IF prev + ExtendSeconds > ExtendSeconds THEN ExtendSeconds ELSE prev + ExtendSeconds

\* addTime's updater: prev => prev + 15
AddTimeUpdater(prev) == prev + ExtendSeconds

\* variant: onstop without the forced track stop
OnStopTracksKept(t) == t

\* recorder.onstop: streamRef.current.getTracks().forEach(track => track.stop())
OnStopTracks(t) == IF t = "live" THEN "stopped" ELSE t

\* recorder.onstop does not touch the audio context or the animation frame
OnStopAudioCtx(a) == a
OnStopRaf(r) == r

\* setup effect cleanup
CleanupTracks(t) == IF t = "live" THEN "stopped" ELSE t
CleanupAudioCtx(a) == IF a = "open" THEN "closed" ELSE a
CleanupRaf(r) == FALSE

\* variant: setupStream without the isMounted check
LateStreamUnchecked(isMounted) == FALSE

\* setupStream after the await: if (!isMounted) { stop the tracks; return }
LateStreamStopped(isMounted) == ~isMounted

\* variant: a timer effect that returns no cleanup
ClearIntervalNever(n) == n

\* the cleanup of a timer effect: clearInterval(interval) ends the interval its
\* run created, if it created one
ClearInterval(n) == IF n > 0 THEN n - 1 ELSE 0

\* a timer effect after a commit: when one of its dependencies has changed the
\* cleanup of its last run is called and it runs again, creating an interval if
\* its condition holds
TimerEffect(n, depsChanged, cond) ==
  IF depsChanged THEN ClearInterval(n) + (IF cond THEN 1 ELSE 0) ELSE n

\* the two timer effects after the commit of a step of the mounted Stage
RunTimerEffects ==
  /\ prepTimers' = TimerEffect(prepTimers,
                               <<isPrep, prepTimeLeft>> # <<isPrep', prepTimeLeft'>>,
                               isPrep' /\ prepTimeLeft' > 0)
  /\ recTimers' = TimerEffect(recTimers,
                              <<isRecording, timeLeft, isPrep>>
                                # <<isRecording', timeLeft', isPrep'>>,
                              ~isPrep' /\ isRecording' /\ timeLeft' > 0)

\* the two timer effects at mount: each runs for the first time
MountTimerEffects ==
  /\ prepTimers' = prepTimers + (IF isPrep' /\ prepTimeLeft' > 0 THEN 1 ELSE 0)
  /\ recTimers' = recTimers + (IF ~isPrep' /\ isRecording' /\ timeLeft' > 0 THEN 1 ELSE 0)

\* variant: a catch block that reports nothing
CatchNoticeNone(isMounted) == "none"

\* setupStream, catch block: if (isMounted) alert(...)
CatchNotice(isMounted) == IF isMounted THEN "media" ELSE "none"

\* finalDuration = duration > 0 ? duration : config.durationSeconds - timeLeft,
\* where timeLeft is the value the mount-time closure captured
FinalDuration(delta, config, closureTimeLeft) ==
  IF delta > 0 THEN delta ELSE config.durationSeconds - closureTimeLeft

\* ---------------------------------------------------------- history helpers
\* variant: a slice that keeps the end of the list
TakeLast(s, n) == SubSeq(s, (IF Len(s) < n THEN 0 ELSE Len(s) - n) + 1, Len(s))

\* slice(0, n)
Take(s, n) == SubSeq(s, 1, IF Len(s) < n THEN Len(s) ELSE n)

\* handleSessionFinish: the HistoryItem built from the result and the handler's sessionConfig
HistoryItem(result, config) ==
  [topic |-> config.topic, mode |-> config.mode, score |-> OverallScore(result),
   wpm |-> Wpm(result), sentiment |-> Sentiment(result), fullResult |-> result]

\* variant: a failing write that empties the log
SaveHistoryItemOrClear(item, h, writeOk) ==
  IF writeOk THEN Take(<<item>> \o h, HistoryCap) ELSE <<>>

\* variant: the item appended at the end of the log
SaveHistoryItemAtEnd(item, h, writeOk) ==
  IF writeOk THEN Take(h \o <<item>>, HistoryCap) ELSE h

\* saveHistoryItem: [item, ...history].slice(0, 20), or nothing when the write throws
SaveHistoryItem(item, h, writeOk) ==
  IF writeOk THEN Take(<<item>> \o h, HistoryCap) ELSE h

\* what localStorage.getItem(STORAGE_KEY) can meet: no entry; an access that
\* throws; text that JSON.parse rejects; text that parses to something that is
\* not an array (an object, as in "{}"); a stored array, held in `history`
StoreKinds == {"absent", "unreadable", "garbage", "foreign", "list"}

\* getHistory never throws (try/catch); it returns a list unless the stored text
\* parses to something else, which is returned as it is
GetHistoryIsList(kind) == kind # "foreign"

\* getHistory: stored ? JSON.parse(stored) : [], and [] from the catch block
GetHistory(kind, items) == IF kind = "list" THEN items ELSE <<>>

\* saveHistoryItem on the store: the spread of a value that is not iterable
\* throws inside the try block, and so does a failing setItem; both are caught
\* and leave the store as it was
SaveToStore(item, writeOk) ==
  /\ history' = IF GetHistoryIsList(store)
                THEN SaveHistoryItem(item, GetHistory(store, history), writeOk)
                ELSE history
  /\ store' = IF GetHistoryIsList(store) /\ writeOk THEN "list" ELSE store

\* the item of the n-th call in HistorySpec: ids grow with the calls, the dates
\* grow, fall or stay the same
DateOrders == {"asc", "desc", "same"}
DateOf(order, n) ==
  CASE order = "asc" -> n
    [] order = "desc" -> MaxAppends + 2 - n
    [] OTHER -> 1
StoredItem(order, n) == [id |-> n, date |-> DateOf(order, n)]

NoLog == [start |-> [kind |-> "absent", items |-> <<>>], order |-> "asc", items |-> <<>>, failed |-> {}]

\* ---------------------------------------------------------- overlay helpers
\* the tip corpus, by position in SPEECH_TIPS (its 30 entries are distinct)
SPEECH_TIPS == 1..NumTips

\* [...SPEECH_TIPS].sort(() => 0.5 - Math.random()) returns a permutation of the
\* corpus; the permutations tried are two rotations and the reversal
Rotated(k) == [i \in 1..NumTips |-> ((i - 1 + k) % NumTips) + 1]
Reversed == [i \in 1..NumTips |-> NumTips + 1 - i]
Shuffles == {Rotated(0), Rotated(13), Reversed}

\* setActiveTips(shuffled.slice(0, 5))
ActiveTips(shuffled) == Take(shuffled, TipsShown)

\* progress is kept multiplied by totalTime / tick, so that a step is 100
Scale == TotalTime \div Tick

\* setProgress updater: if (prev >= 99) return 99; return prev + 100 / (totalTime / tick)
ProgressUpdater(prev) ==
  IF prev >= HoldAt * Scale THEN HoldAt * Scale ELSE prev + 100

\* variant: the percentage rounded up
PercentCeil(p) == (p + Scale - 1) \div Scale

\* the percentage rendered in the overlay: Math.floor(progress)
Percent(p) == p \div Scale

\* variant: a rotation that does not wrap
TipUpdaterNoWrap(prev, len) == prev + 1

\* setCurrentTipIndex updater: prev => (prev + 1) % activeTips.length
TipUpdater(prev, len) == (prev + 1) % len

\* variant: a progress interval that is created by the first analysis and never
\* cleared
ProgressTimerKept == ~effectDue /\ activeTips # <<>>

\* progress effect: the interval exists while isAnalyzing, from the run of the effect
ProgressTimerActive == isAnalyzing /\ ~effectDue

\* rotation effect: the interval exists while isAnalyzing && activeTips.length > 0
TipTimerActive == isAnalyzing /\ ~effectDue /\ Len(activeTips) > 0

\* ------------------------------------------------------------- pace helpers
\* a transcript is a sequence of characters, each given by its class: a Latin
\* letter, a space, a Han ideograph, a kana, a punctuation mark
Chars == {"a", " ", "han", "kana", "."}
Transcripts == UNION { [1..n -> Chars] : n \in 0..MaxLen }
Languages == {"English", "Mandarin", "Japanese"}     \* of the options of SessionSetup
HalfSeconds == {0, 1, 2, 20, 120}   \* durationSeconds, counted in half seconds
RemoteWpm == {0, 150}               \* the wpm field of the remote's reply

\* language.toLowerCase().includes('cantonese' | 'mandarin' | 'chinese' | 'japanese')
IsChinese(language) == language \in {"Cantonese", "Mandarin", "Chinese", "Japanese"}

IsSpace(c) == c = " "

\* String.prototype.trim
RECURSIVE TrimStart(_)
TrimStart(t) == IF t # <<>> /\ IsSpace(Head(t)) THEN TrimStart(Tail(t)) ELSE t
RECURSIVE TrimEnd(_)
TrimEnd(t) ==
  IF t # <<>> /\ IsSpace(t[Len(t)]) THEN TrimEnd(SubSeq(t, 1, Len(t) - 1)) ELSE t
Trim(t) == TrimEnd(TrimStart(t))

\* split(/\s+/).length: one piece more than there are runs of spaces
SplitLength(t) ==
  1 + Cardinality({ i \in 1..Len(t) : IsSpace(t[i]) /\ (i = 1 \/ ~IsSpace(t[i - 1])) })

\* transcript.replace(/[^\u4e00-\u9fa5a-zA-Z0-9]/g, "")
Kept(c) == c \in {"han", "a"}
CleanText(t) == SelectSeq(t, Kept)

\* contentCount: 0 without a transcript (undefined or ""), else by language
ContentCount(transcript, language) ==
  IF transcript = <<>> THEN 0
  ELSE IF IsChinese(language) THEN Len(CleanText(transcript))
  ELSE SplitLength(Trim(transcript))

\* Math.round(n / d) for n >= 0 and d > 0
Round(n, d) == (2 * n + d) \div (2 * d)

\* safeDuration = Math.max(durationSeconds, 1);
\* calculatedPace = Math.round(contentCount / (safeDuration / 60))
CalculatedPace(contentCount, half) ==
  LET safeHalf == IF half > 2 THEN half ELSE 2
  IN Round(120 * contentCount, safeHalf)

NoPace == [transcript |-> <<>>, language |-> "English", half |-> 120,
           wpm |-> 0, done |-> FALSE]

\* ------------------------------------------------------------ codec helpers
\* getSupportedMimeType: the priority list, with the empty type at its end
MimeTypes ==
  <<"audio/webm;codecs=opus", "audio/webm", "audio/mp4", "audio/ogg;codecs=opus", "">>

\* the encodings a runtime may report as supported: those of the list and one
\* that is not on it
KnownTypes == {"audio/webm;codecs=opus", "audio/webm", "audio/mp4",
               "audio/ogg;codecs=opus", "audio/wav"}

\* the encoding a recorder created without options records in: one the runtime
\* supports, or one outside KnownTypes when it supports none of them
PlatformDefaults(supported) == IF supported = {} THEN {"audio/other"} ELSE supported

\* for (const type of types) if (type === '' || isTypeSupported(type)) return type
RECURSIVE FirstSupported(_, _)
FirstSupported(types, supported) ==
  IF types = <<>> THEN ""
  ELSE IF Head(types) = "" \/ Head(types) \in supported THEN Head(types)
  ELSE FirstSupported(Tail(types), supported)

GetSupportedMimeType(supported) == FirstSupported(MimeTypes, supported)

\* options = mimeType ? { mimeType } : undefined
RecorderOptions(mimeType) ==
  IF mimeType # "" THEN [mimeType |-> mimeType] ELSE [mimeType |-> "undefined"]

\* the encoding of a recorder created with these options
RecorderType(options, default) ==
  IF options.mimeType # "undefined" THEN options.mimeType ELSE default

\* onstop: new Blob(chunks, { type: mimeType || 'audio/webm' })
BlobType(mimeType) == IF mimeType # "" THEN mimeType ELSE "audio/webm"

NoCodec == [supported |-> {}, default |-> "audio/other", mimeType |-> "",
            options |-> [mimeType |-> "undefined"], recorderType |-> "",
            blobType |-> "", phase |-> "probe"]

\* ---------------------------------------------------------------- Init
NoOrphan == [live |-> FALSE, ctx |-> FALSE, raf |-> FALSE]

\* the Stage variables while no Stage is mounted
NoStage ==
  /\ isPrep' = FALSE /\ prepTimeLeft' = 0 /\ timeLeft' = 0
  /\ isRecording' = FALSE /\ isReady' = FALSE
  /\ media' = "none" /\ tracks' = "none" /\ audioCtx' = "none" /\ raf' = FALSE
  /\ recorder' = "none"
  /\ chunks' = 0 /\ startTime' = 0 /\ notice' = "none"
  /\ prepTimers' = ClearInterval(prepTimers) /\ recTimers' = ClearInterval(recTimers)
  /\ extends' = 0 /\ recTicks' = 0 /\ finished' = FALSE

\* useState("Loading topic..."): the topic shown before any response
LoadingTopic == [id |-> 0, interests |-> <<>>]

\* the text typed into the custom topic field
CustomTopic == [id |-> 0, interests |-> <<"custom">>]

\* useState(COMEDY_THEMES[0])
FirstTheme == "Parenting"

InitSession ==
  /\ step = "ONBOARDING"
  /\ userPrefs = [topics |-> <<>>, preferredMode |-> "SPEECH"]
  /\ selectedInterests = <<>> /\ selectedMode = "SPEECH"
  /\ sessionConfig = InitialConfig
  /\ analysisResult = NULL /\ currentAudioBlob = NULL /\ recordedDuration = 0
  /\ isAnalyzing = FALSE
  /\ calls = {}
  /\ isPrep = FALSE /\ prepTimeLeft = 0 /\ timeLeft = 0
  /\ isRecording = FALSE /\ isReady = FALSE
  /\ media = "none" /\ tracks = "none" /\ audioCtx = "none" /\ raf = FALSE
  /\ recorder = "none"
  /\ chunks = 0 /\ startTime = 0 /\ notice = "none"
  /\ prepTimers = 0 /\ recTimers = 0
  /\ stops = <<>> /\ ghostGum = 0 /\ orphan = NoOrphan
  /\ ev = "Init" /\ extends = 0 /\ recTicks = 0 /\ nRecs = 0
  /\ finished = FALSE
  /\ progress = 0 /\ activeTips = <<>> /\ currentTipIndex = 0 /\ effectDue = FALSE
  /\ setupStep = 1 /\ topic = LoadingTopic /\ isCustomTopic = FALSE
  /\ loading = FALSE /\ comedyTheme = FirstTheme
  /\ requests = {} /\ issued = 0

\* the application starts on a browser that holds no history
Init ==
  /\ InitSession
  /\ history = <<>> /\ store = "absent" /\ appendLog = NoLog
  /\ pace = NoPace /\ codec = NoCodec

\* Unmounting the Stage: the setup effect's cleanup (isMounted = false; stop the
\* tracks of streamRef; close audioContextRef; cancel animationFrameRef) and the
\* cleanups of the timer effects.  A device request still pending stays pending.
Unmount ==
  /\ NoStage
  /\ stops' = [i \in 1..Len(stops) |-> [stops[i] EXCEPT !.ghost = TRUE]]
  /\ ghostGum' = ghostGum + (IF media = "pending" THEN 1 ELSE 0)
  /\ orphan' = [live |-> orphan.live \/ CleanupTracks(tracks) = "live",
                ctx |-> orphan.ctx \/ CleanupAudioCtx(audioCtx) = "open",
                raf |-> orphan.raf \/ CleanupRaf(raf)]

\* A step of App that changes `step`: the Stage is unmounted if it was mounted.
LeaveStage ==
  IF step = "STAGE" THEN Unmount
  ELSE UNCHANGED <<isPrep, prepTimeLeft, timeLeft, isRecording, isReady, media,
                   tracks, audioCtx, raf, recorder, refVars, timerVars, bookVars,
                   stops, ghostGum, orphan>>


\* ------------------------------------------------------------ App actions

\* Onboarding.toggleInterest
ToggleInterest(interest) ==
  /\ step = "ONBOARDING" /\ ~EffectPending
  /\ selectedInterests' =
       IF \E k \in 1..Len(selectedInterests) : selectedInterests[k] = interest
       THEN SelectSeq(selectedInterests, LAMBDA i : i # interest)
       ELSE Append(selectedInterests, interest)
  /\ ev' = "ToggleInterest"
  /\ UNCHANGED <<selectedMode, step, userPrefs, sessionConfig, analysisResult,
                 currentAudioBlob, recordedDuration, isAnalyzing, calls, history,
                 stageVars, stops, ghostGum, orphan, bookVars, nRecs, overlayVars,
                 effectDue, store, libVars>>

\* Onboarding: setSelectedMode(m.id)
SelectMode(m) ==
  /\ step = "ONBOARDING" /\ ~EffectPending
  /\ selectedMode' = m
  /\ ev' = "SelectMode"
  /\ UNCHANGED <<selectedInterests, step, userPrefs, sessionConfig, analysisResult,
                 currentAudioBlob, recordedDuration, isAnalyzing, calls, history,
                 stageVars, stops, ghostGum, orphan, bookVars, nRecs, overlayVars,
                 effectDue, store, libVars>>

\* variant: the selection passed on as it is
HandleNextTopicsAsSelected(selected) == selected

\* Onboarding.handleNext: selectedInterests.length > 0 ? selectedInterests : ["General"]
HandleNextTopics(selected) == IF Len(selected) > 0 THEN selected ELSE <<"General">>

\* Onboarding.handleNext -> handleOnboardingComplete(prefs), with m the selected
\* mode; the Onboarding component is unmounted
OnboardingComplete(m) ==
  /\ step = "ONBOARDING" /\ ~EffectPending
  /\ m = selectedMode
  /\ userPrefs' = [topics |-> HandleNextTopics(selectedInterests), preferredMode |-> m]
  /\ sessionConfig' = [sessionConfig EXCEPT !.mode = m]
  /\ step' = "SETUP"
  /\ selectedInterests' = <<>> /\ selectedMode' = "SPEECH"
  /\ ev' = "OnboardingComplete"
  /\ UNCHANGED <<analysisResult, currentAudioBlob, recordedDuration, isAnalyzing,
                 calls, history, stageVars, stops, ghostGum, orphan, bookVars,
                 nRecs,
                 overlayVars, effectDue, store, libVars>>

\* handleBackToOnboarding (the menu entry of SessionSetup)
BackToOnboarding ==
  /\ step = "SETUP" /\ ~EffectPending
  /\ step' = "ONBOARDING"
  /\ ev' = "BackToOnboarding"
  /\ UNCHANGED <<onbVars, userPrefs, sessionConfig, analysisResult, currentAudioBlob,
                 recordedDuration, isAnalyzing, calls, history, stageVars, stops,
                 ghostGum, orphan, bookVars, nRecs,
                 overlayVars, effectDue, store, libVars>>

\* variant: the mode taken from the config the session currently holds
SetupModeOfConfig(prefs) == sessionConfig.mode

\* SessionSetup: const mode = prefs.preferredMode || SessionMode.SPEECH
SetupMode(prefs) ==
  IF prefs.preferredMode = "" THEN "SPEECH" ELSE prefs.preferredMode

\* SessionSetup.handleStart -> handleSessionStart(config); the Stage mounts and
\* its setup effect issues getUserMedia
SessionStart(config) ==
  /\ step = "SETUP" /\ ~EffectPending
  /\ ghostGum < MaxGhostGum
  /\ config.mode = SetupMode(userPrefs)
  /\ sessionConfig' = config
  /\ step' = "STAGE"
  /\ isPrep' = InitIsPrep(config)
  /\ prepTimeLeft' = config.prepTimeSeconds
  /\ timeLeft' = config.durationSeconds
  /\ isRecording' = FALSE /\ isReady' = FALSE
  /\ media' = "pending" /\ tracks' = "none" /\ audioCtx' = "none" /\ raf' = FALSE
  /\ recorder' = "none"
  /\ chunks' = 0 /\ startTime' = 0 /\ notice' = "none"
  /\ MountTimerEffects
  /\ extends' = 0 /\ recTicks' = 0 /\ finished' = FALSE
  /\ ev' = "SessionStart"
  /\ UNCHANGED <<onbVars, userPrefs, analysisResult, currentAudioBlob, recordedDuration,
                 isAnalyzing, calls, history, stops, ghostGum, orphan, nRecs,
                 overlayVars, effectDue, store, libVars>>

\* the X button of the prep overlay: onBack = handleBackToSetup
Cancel ==
  /\ CancelEnabled
  /\ step' = "SETUP"
  /\ Unmount
  /\ ev' = "Cancel"
  /\ UNCHANGED <<onbVars, userPrefs, sessionConfig, analysisResult, currentAudioBlob,
                 recordedDuration, isAnalyzing, calls, history, nRecs,
                 overlayVars, effectDue, store, libVars>>

\* variant: the loaded view keeps the config of the last session
HistoryConfigKept(item) == sessionConfig

\* handleLoadHistory: the config built from the item
HistoryConfig(item) ==
  [topic |-> item.topic, mode |-> item.mode, durationSeconds |-> 0,
   prepTimeSeconds |-> 0]

\* variant: a history load that attaches no result
LoadHistoryNoResult(i) ==
  /\ step = "SETUP" /\ ~EffectPending
  /\ i \in 1..Len(history)
  /\ sessionConfig' = HistoryConfig(history[i])
  /\ currentAudioBlob' = NULL
  /\ recordedDuration' = 0
  /\ step' = "ANALYSIS"
  /\ ev' = "LoadHistory"
  /\ UNCHANGED <<onbVars, userPrefs, analysisResult, isAnalyzing, calls, history,
                 stageVars, stops, ghostGum, orphan, bookVars, nRecs,
                 overlayVars, effectDue, store, libVars>>

\* handleLoadHistory(item), item picked in the history view of SessionSetup
LoadHistory(i) ==
  /\ step = "SETUP" /\ ~EffectPending
  /\ i \in 1..Len(history)
  /\ sessionConfig' = HistoryConfig(history[i])
  /\ analysisResult' = history[i].fullResult
  /\ currentAudioBlob' = NULL
  /\ recordedDuration' = 0
  /\ step' = "ANALYSIS"
  /\ ev' = "LoadHistory"
  /\ UNCHANGED <<onbVars, userPrefs, isAnalyzing, calls, history, stageVars, stops,
                 ghostGum, orphan, bookVars, nRecs,
                 overlayVars, effectDue, store, libVars>>

\* variant: a restart that keeps the held recording
RestartKeepsBlob ==
  /\ step = "ANALYSIS" /\ analysisResult # NULL /\ ~EffectPending
  /\ analysisResult' = NULL
  /\ step' = "SETUP"
  /\ ev' = "Restart"
  /\ UNCHANGED <<onbVars, userPrefs, sessionConfig, currentAudioBlob, recordedDuration,
                 isAnalyzing, calls, history, stageVars, stops, ghostGum, orphan,
                 bookVars, nRecs, overlayVars, effectDue, store, libVars>>

\* handleRestart (the Analysis view is rendered only with a result attached)
Restart ==
  /\ step = "ANALYSIS" /\ analysisResult # NULL /\ ~EffectPending
  /\ analysisResult' = NULL
  /\ currentAudioBlob' = NULL
  /\ recordedDuration' = 0
  /\ step' = "SETUP"
  /\ ev' = "Restart"
  /\ UNCHANGED <<onbVars, userPrefs, sessionConfig, isAnalyzing, calls, history, stageVars,
                 stops, ghostGum, orphan, bookVars, nRecs,
                 overlayVars, effectDue, store, libVars>>

\* handleSessionFinish after the await, success path: the result is attached, the
\* HistoryItem saved, analyzing cleared and the step set to ANALYSIS
AnalyzeOk(c, result, writeOk) ==
  /\ c \in calls /\ ~EffectPending
  /\ calls' = calls \ {c}
  /\ analysisResult' = result
  /\ SaveToStore(HistoryItem(result, c.config), writeOk)
  /\ isAnalyzing' = FALSE
  /\ step' = "ANALYSIS"
  /\ LeaveStage
  /\ ev' = "AnalyzeOk"
  /\ UNCHANGED <<onbVars, userPrefs, sessionConfig, currentAudioBlob, recordedDuration,
                 nRecs,
                 overlayVars, effectDue, libVars>>

\* handleSessionFinish, catch path
AnalyzeFail(c) ==
  /\ c \in calls /\ ~EffectPending
  /\ calls' = calls \ {c}
  /\ isAnalyzing' = FALSE
  /\ step' = "SETUP"
  /\ LeaveStage
  /\ ev' = "AnalyzeFail"
  /\ UNCHANGED <<onbVars, userPrefs, sessionConfig, analysisResult, currentAudioBlob,
                 recordedDuration, history, nRecs,
                 overlayVars, effectDue, store, libVars>>

\* ---------------------------------------------------------- Stage actions
appFrame == UNCHANGED <<appVars, calls, history, overlayVars, effectDue, store, libVars>>

\* setupStream runs to its end: stream acquired, audio graph built, volume loop
\* started, recorder created, setIsReady(true)
GumResolve ==
  /\ step = "STAGE" /\ media = "pending" /\ ~EffectPending
  /\ media' = "ready"
  /\ tracks' = "live" /\ audioCtx' = "open" /\ raf' = TRUE
  /\ recorder' = "inactive"
  /\ isReady' = TRUE
  /\ ev' = "GumResolve"
  /\ appFrame
  /\ UNCHANGED <<isPrep, prepTimeLeft, timeLeft, isRecording, stops,
                 ghostGum, orphan, bookVars, nRecs, refVars>>
  /\ RunTimerEffects

\* getUserMedia rejects: the catch block reports it
GumReject ==
  /\ step = "STAGE" /\ media = "pending" /\ ~EffectPending
  /\ media' = "failed"
  /\ notice' = CatchNotice(TRUE)
  /\ ev' = "GumReject"
  /\ appFrame
  /\ UNCHANGED <<isPrep, prepTimeLeft, timeLeft, isRecording, isReady,
                 tracks, audioCtx, raf, recorder, stops, ghostGum, orphan,
                 bookVars, nRecs, chunks, startTime>>
  /\ RunTimerEffects

\* setupStream throws after the stream was acquired: at the AudioContext
\* constructor ("ctx") or at the MediaRecorder constructor ("recorder")
SetupThrow(at) ==
  /\ step = "STAGE" /\ media = "pending" /\ ~EffectPending
  /\ media' = "failed"
  /\ tracks' = "live"
  /\ audioCtx' = (IF at = "recorder" THEN "open" ELSE "none")
  /\ raf' = (at = "recorder")
  /\ notice' = CatchNotice(TRUE)
  /\ ev' = "SetupThrow"
  /\ appFrame
  /\ UNCHANGED <<isPrep, prepTimeLeft, timeLeft, isRecording, isReady,
                 recorder, stops, ghostGum, orphan, bookVars, nRecs, chunks,
                 startTime>>
  /\ RunTimerEffects

\* a device request of an unmounted Stage settles; when it resolves, setupStream
\* finds isMounted false, stops the tracks and returns
GhostGumSettle(resolved) ==
  /\ ghostGum > 0
  /\ ghostGum' = ghostGum - 1
  /\ orphan' = IF resolved /\ ~LateStreamStopped(FALSE)
               THEN [live |-> TRUE, ctx |-> TRUE, raf |-> TRUE]
               ELSE orphan
  /\ ev' = (IF resolved THEN "GhostGumResolve" ELSE "GhostGumReject")
  /\ appFrame
  /\ UNCHANGED <<stageVars, stops, bookVars, nRecs>>

\* prep interval callback: setPrepTimeLeft(prev => prev - 1)
PrepTick ==
  /\ PrepTimerActive /\ ~EffectPending
  /\ prepTimeLeft' = prepTimeLeft - 1
  /\ ev' = "PrepTick"
  /\ appFrame
  /\ UNCHANGED <<isPrep, timeLeft, isRecording, isReady, media, tracks,
                 audioCtx, raf, recorder, stops, ghostGum, orphan, bookVars,
                 nRecs, refVars>>
  /\ RunTimerEffects

\* prep timer effect at zero: setIsPrep(false)
PrepDoneEffect ==
  /\ PrepDonePending
  /\ isPrep' = FALSE
  /\ ev' = "PrepDoneEffect"
  /\ appFrame
  /\ UNCHANGED <<prepTimeLeft, timeLeft, isRecording, isReady, media, tracks,
                 audioCtx, raf, recorder, stops, ghostGum, orphan, bookVars,
                 nRecs, refVars>>
  /\ RunTimerEffects

\* skipPrep (the "I'm Ready" button of the prep overlay)
SkipPrep ==
  /\ step = "STAGE" /\ isPrep /\ ~EffectPending
  /\ isPrep' = FALSE
  /\ ev' = "SkipPrep"
  /\ appFrame
  /\ UNCHANGED <<prepTimeLeft, timeLeft, isRecording, isReady, media, tracks,
                 audioCtx, raf, recorder, stops, ghostGum, orphan, bookVars,
                 nRecs, refVars>>
  /\ RunTimerEffects

\* variant: a guard that only checks that the recorder exists
StartRefusedIfMissing == recorder = "none"

\* startRecording, the guard: !mediaRecorderRef.current || state !== "inactive"
StartRefused == recorder # "inactive"

\* variant: setIsRecording(true) ahead of recorder.start
StartCatchIsRecordingSet(prev) == TRUE

\* startRecording, catch block: setIsRecording(true) was not reached
StartCatchIsRecording(prev) == prev

\* startRecording with the outcome of recorder.start(1000), which can only
\* succeed on an inactive recorder: past the guard the chunks are emptied and the
\* start time is taken; then start and setIsRecording(true), or the catch block
\* and its alert
DoStart(startOk) ==
  /\ IF StartRefused
     THEN UNCHANGED <<chunks, startTime, recorder, isRecording, notice, nRecs>>
     ELSE /\ chunks' = 0
          /\ startTime' = nRecs + 1
          /\ IF startOk /\ recorder = "inactive"
             THEN /\ recorder' = "recording"
                  /\ isRecording' = TRUE
                  /\ nRecs' = nRecs + 1
                  /\ UNCHANGED notice
             ELSE /\ notice' = "start"
                  /\ isRecording' = StartCatchIsRecording(isRecording)
                  /\ UNCHANGED <<recorder, nRecs>>
  /\ appFrame
  /\ UNCHANGED <<isPrep, prepTimeLeft, timeLeft, isReady, media, tracks,
                 audioCtx, raf, stops, ghostGum, orphan, bookVars>>
  /\ RunTimerEffects

\* the Record button, recorder.start succeeds
StartRecording ==
  /\ StartEnabled /\ ~EffectPending
  /\ recorder = "inactive"
  /\ nRecs < MaxRecs
  /\ DoStart(TRUE)
  /\ ev' = "StartRecording"

\* the Record button, recorder.start throws
StartThrow ==
  /\ StartEnabled /\ ~EffectPending
  /\ recorder = "inactive"
  /\ DoStart(FALSE)
  /\ ev' = "StartThrow"

\* startRecording called while the recorder is missing or not inactive (the
\* Record button does not offer it then)
StartCall ==
  /\ step = "STAGE" /\ ~EffectPending
  /\ recorder # "inactive"
  /\ DoStart(FALSE)
  /\ ev' = "StartCall"

\* recorder.ondataavailable with data: chunksRef.current.push(e.data)
DataAvailable ==
  /\ step = "STAGE" /\ ~EffectPending
  /\ recorder = "recording"
  /\ chunks < MaxChunks
  /\ chunks' = chunks + 1
  /\ ev' = "DataAvailable"
  /\ appFrame
  /\ UNCHANGED <<isPrep, prepTimeLeft, timeLeft, isRecording, isReady, media,
                 tracks, audioCtx, raf, recorder, stops, ghostGum, orphan,
                 bookVars, nRecs, startTime, notice>>
  /\ RunTimerEffects

\* stopRecording: if the recorder is recording, stop() (the recorder becomes
\* inactive at once and its stop event is queued) and setIsRecording(false)
DoStop ==
  /\ IF recorder = "recording"
     THEN /\ recorder' = "inactive"
          /\ isRecording' = FALSE
          /\ stops' = Append(stops, [ghost |-> FALSE, rec |-> nRecs,
                                     config |-> sessionConfig])
     ELSE UNCHANGED <<recorder, isRecording, stops>>
  /\ appFrame
  /\ UNCHANGED <<isPrep, prepTimeLeft, timeLeft, isReady, media, tracks,
                 audioCtx, raf, ghostGum, orphan, bookVars, nRecs, refVars>>
  /\ RunTimerEffects

\* the Stop button
StopRecording ==
  /\ StopEnabled /\ ~EffectPending
  /\ DoStop
  /\ ev' = "StopRecording"

\* auto-stop effect
AutoStopEffect ==
  /\ AutoStopPending
  /\ DoStop
  /\ ev' = "AutoStopEffect"

\* recording interval callback: setTimeLeft(prev => Math.max(0, prev - 1))
RecTick ==
  /\ RecTimerActive /\ ~EffectPending
  /\ timeLeft' = (IF timeLeft - 1 > 0 THEN timeLeft - 1 ELSE 0)
  /\ recTicks' = recTicks + 1
  /\ ev' = "RecTick"
  /\ appFrame
  /\ UNCHANGED <<isPrep, prepTimeLeft, isRecording, isReady, media, tracks,
                 audioCtx, raf, recorder, stops, ghostGum, orphan, extends,
                 finished, nRecs, refVars>>
  /\ RunTimerEffects

\* addTime: setTimeLeft(prev => prev + 15)
AddTime ==
  /\ AddTimeEnabled /\ ~EffectPending
  /\ extends < MaxExtends
  /\ timeLeft' = AddTimeUpdater(timeLeft)
  /\ extends' = extends + 1
  /\ ev' = "AddTime"
  /\ appFrame
  /\ UNCHANGED <<isPrep, prepTimeLeft, isRecording, isReady, media, tracks,
                 audioCtx, raf, recorder, stops, ghostGum, orphan, recTicks,
                 finished, nRecs, refVars>>
  /\ RunTimerEffects

\* recorder.onstop fires for the oldest queued stop: the blob is built, the
\* tracks of streamRef are stopped and onFinish(blob, finalDuration) runs, which
\* is handleSessionFinish up to its await: setIsAnalyzing(true),
\* setCurrentAudioBlob, setRecordedDuration, and the Analyzer call is issued
StopEvent(delta) ==
  /\ stops # <<>>
  /\ LET e == Head(stops)
         mine == ~e.ghost
         d == FinalDuration(delta, e.config, e.config.durationSeconds)
     IN /\ stops' = Tail(stops)
        /\ tracks' = (IF mine THEN OnStopTracks(tracks) ELSE tracks)
        /\ audioCtx' = (IF mine THEN OnStopAudioCtx(audioCtx) ELSE audioCtx)
        /\ raf' = (IF mine THEN OnStopRaf(raf) ELSE raf)
        /\ finished' = (finished \/ mine)
        /\ isAnalyzing' = TRUE
        /\ effectDue' = (effectDue \/ ~isAnalyzing)
        /\ currentAudioBlob' = e.rec
        /\ recordedDuration' = d
        /\ calls' = calls \cup {[blob |-> e.rec, duration |-> d, config |-> e.config]}
  /\ ev' = "StopEvent"
  /\ UNCHANGED <<onbVars, step, userPrefs, sessionConfig, analysisResult, history, isPrep,
                 prepTimeLeft, timeLeft, isRecording, isReady, media, recorder,
                 ghostGum, orphan, extends, recTicks, nRecs,
                 overlayVars, store, libVars, refVars, timerVars>>

\* --------------------------------------------------------- overlay actions
sessionFrame ==
  UNCHANGED <<appVars, calls, history, stageVars, stops, ghostGum, orphan,
              bookVars, nRecs, store, libVars>>

\* the effects of the commit in which isAnalyzing became true: five tips of the
\* shuffled corpus, setCurrentTipIndex(0), setProgress(0), and the two intervals
AnalyzingEffect(shuffled) ==
  /\ effectDue
  /\ activeTips' = ActiveTips(shuffled)
  /\ currentTipIndex' = 0
  /\ progress' = 0
  /\ effectDue' = FALSE
  /\ ev' = "AnalyzingEffect"
  /\ sessionFrame

\* progress interval callback (every 100 ms)
ProgressTick ==
  /\ ProgressTimerActive /\ ~EffectPending
  /\ progress' = ProgressUpdater(progress)
  /\ ev' = "ProgressTick"
  /\ sessionFrame
  /\ UNCHANGED <<activeTips, currentTipIndex, effectDue>>

\* rotation interval callback (every 5 s)
TipTick ==
  /\ TipTimerActive /\ ~EffectPending
  /\ currentTipIndex' = TipUpdater(currentTipIndex, Len(activeTips))
  /\ ev' = "TipTick"
  /\ sessionFrame
  /\ UNCHANGED <<activeTips, progress, effectDue>>

\* ----------------------------------------------------- SessionSetup actions
setupFrame ==
  UNCHANGED <<appVars, calls, history, stageVars, stops, ghostGum, orphan,
              bookVars, nRecs, overlayVars, effectDue, store, pace, appendLog,
              codec>>

\* fetchTopic: mode === COMEDY ? [comedyTheme] : prefs.topics
RelevantInterests(theme) ==
  IF SetupMode(userPrefs) = "COMEDY" THEN <<theme>> ELSE userPrefs.topics

\* fetchTopic of a render with these values of isCustomTopic and comedyTheme, up
\* to its await: nothing for a custom topic, else setLoading(true) and a call of
\* generateTopic
FetchTopic(custom, theme) ==
  IF custom
  THEN UNCHANGED <<loading, requests, issued>>
  ELSE /\ issued < MaxRequests
       /\ loading' = TRUE
       /\ issued' = issued + 1
       /\ requests' = requests \cup
                        {[id |-> issued + 1, interests |-> RelevantInterests(theme)]}

\* the effect on [setupStep, fetchTopic]: if (setupStep === 2) fetchTopic()
TopicEffect(stepNew, custom, theme) ==
  IF stepNew = 2 THEN FetchTopic(custom, theme)
  ELSE UNCHANGED <<loading, requests, issued>>

\* setSetupStep(n): "Next" on the config page, "Back to Config" on the topic page
SetSetupStep(n) ==
  /\ step = "SETUP" /\ n # setupStep
  /\ setupStep' = n
  /\ TopicEffect(n, isCustomTopic, comedyTheme)
  /\ ev' = "SetSetupStep"
  /\ setupFrame
  /\ UNCHANGED <<topic, isCustomTopic, comedyTheme>>

\* the tabs "AI Generated" / "Write My Own": setIsCustomTopic(b); fetchTopic
\* depends on isCustomTopic, so the effect runs again
SetIsCustomTopic(b) ==
  /\ step = "SETUP" /\ setupStep = 2 /\ b # isCustomTopic
  /\ isCustomTopic' = b
  /\ TopicEffect(setupStep, b, comedyTheme)
  /\ ev' = "SetIsCustomTopic"
  /\ setupFrame
  /\ UNCHANGED <<setupStep, topic, comedyTheme>>

\* the theme select, rendered in comedy mode for a generated topic, also while a
\* request is pending: setComedyTheme(theme); the effect runs again
SetComedyTheme(theme) ==
  /\ step = "SETUP" /\ setupStep = 2 /\ ~isCustomTopic
  /\ SetupMode(userPrefs) = "COMEDY" /\ theme # comedyTheme
  /\ comedyTheme' = theme
  /\ TopicEffect(setupStep, isCustomTopic, theme)
  /\ ev' = "SetComedyTheme"
  /\ setupFrame
  /\ UNCHANGED <<setupStep, topic, isCustomTopic>>

\* the "Generate New Topic" button: not in comedy mode, disabled while loading
RefreshTopic ==
  /\ step = "SETUP" /\ setupStep = 2 /\ ~isCustomTopic
  /\ SetupMode(userPrefs) # "COMEDY" /\ ~loading
  /\ FetchTopic(isCustomTopic, comedyTheme)
  /\ ev' = "RefreshTopic"
  /\ setupFrame
  /\ UNCHANGED <<setupStep, topic, isCustomTopic, comedyTheme>>

\* fetchTopic after its await, for any call in flight: setTopic(newTopic),
\* setLoading(false)
TopicResponse(r) ==
  /\ step = "SETUP" /\ r \in requests
  /\ requests' = requests \ {r}
  /\ topic' = r
  /\ loading' = FALSE
  /\ ev' = "TopicResponse"
  /\ setupFrame
  /\ UNCHANGED <<setupStep, isCustomTopic, comedyTheme, issued>>

\* handleStart: topic: isCustomTopic ? customTopic : topic
HandleStartTopic == IF isCustomTopic THEN CustomTopic ELSE topic

\* the Enter Stage button of the topic page, disabled while loading
EnterStage ==
  /\ setupStep = 2 /\ ~loading
  /\ SessionStart([topic |-> HandleStartTopic, mode |-> SetupMode(userPrefs),
                   durationSeconds |-> 1, prepTimeSeconds |-> 0])

\* --------------------------------------------------------- library actions
\* one call of saveHistoryItem, with the next item
AppendItem(writeOk) ==
  /\ Len(appendLog.items) < MaxAppends
  /\ ~writeOk => Cardinality(appendLog.failed) < MaxWriteFailures
  /\ LET n == Len(appendLog.items) + 1
         item == StoredItem(appendLog.order, n)
     IN /\ SaveToStore(item, writeOk)
        /\ appendLog' = [appendLog EXCEPT
                           !.items = Append(@, item),
                           !.failed = IF writeOk THEN @ ELSE @ \cup {n}]
  /\ ev' = "AppendItem"
  /\ UNCHANGED <<appVars, calls, stageVars, stops, ghostGum, orphan, bookVars,
                 nRecs, overlayVars, effectDue, pace, codec, setupVars>>

\* analyzeSpeech after the reply is parsed: result.wpm = calculatedPace
AnalyzeSpeechPace ==
  /\ ~pace.done
  /\ pace' = [pace EXCEPT
                !.wpm = CalculatedPace(ContentCount(pace.transcript, pace.language),
                                       pace.half),
                !.done = TRUE]
  /\ ev' = "AnalyzeSpeechPace"
  /\ UNCHANGED <<appVars, calls, history, stageVars, stops, ghostGum, orphan,
                 bookVars, nRecs, overlayVars, effectDue, store, appendLog, codec,
                 setupVars>>

\* setupStream: the type is negotiated and the recorder created with the options
CreateRecorder ==
  /\ codec.phase = "probe"
  /\ LET mimeType == GetSupportedMimeType(codec.supported)
         options == RecorderOptions(mimeType)
     IN codec' = [codec EXCEPT !.mimeType = mimeType,
                               !.options = options,
                               !.recorderType = RecorderType(options, codec.default),
                               !.phase = "recorder"]
  /\ ev' = "CreateRecorder"
  /\ UNCHANGED <<appVars, calls, history, stageVars, stops, ghostGum, orphan,
                 bookVars, nRecs, overlayVars, effectDue, store, appendLog, pace,
                 setupVars>>

\* recorder.onstop: the blob is built and tagged
BuildBlob ==
  /\ codec.phase = "recorder"
  /\ codec' = [codec EXCEPT !.blobType = BlobType(codec.mimeType), !.phase = "blob"]
  /\ ev' = "BuildBlob"
  /\ UNCHANGED <<appVars, calls, history, stageVars, stops, ghostGum, orphan,
                 bookVars, nRecs, overlayVars, effectDue, store, appendLog, pace,
                 setupVars>>

\* ------------------------------------------------------------------ Next
Next ==
  \/ \E m \in Modes : OnboardingComplete(m)
  \/ BackToOnboarding
  \/ \E config \in Configs : SessionStart(config)
  \/ Cancel
  \/ \E i \in 1..HistoryCap : LoadHistory(i)
  \/ Restart
  \/ \E c \in calls, result \in Results, writeOk \in BOOLEAN : AnalyzeOk(c, result, writeOk)
  \/ \E c \in calls : AnalyzeFail(c)
  \/ GumResolve
  \/ GumReject
  \/ \E at \in {"ctx", "recorder"} : SetupThrow(at)
  \/ \E resolved \in BOOLEAN : GhostGumSettle(resolved)
  \/ PrepTick
  \/ PrepDoneEffect
  \/ SkipPrep
  \/ StartRecording
  \/ StopRecording
  \/ AutoStopEffect
  \/ RecTick
  \/ AddTime
  \/ \E delta \in ClockDeltas : StopEvent(delta)
  \/ AnalyzingEffect(Rotated(0))

Spec == Init /\ [][Next]_vars

\* The progress of a recording.  The Stage reads neither the Analyzer's reply,
\* nor the history store, nor the duration it reports, so the reply is fixed to
\* one report whose history write succeeds and the clock to a positive delta;
\* the handlers of the setup and analysis screens that only navigate between
\* screens without a Stage (back to onboarding, history load, restart) are
\* left out.
StageNext ==
  \/ \E m \in Modes : OnboardingComplete(m)
  \/ \E config \in Configs : SessionStart(config)
  \/ Cancel
  \/ \E c \in calls : AnalyzeOk(c, 1, TRUE)
  \/ \E c \in calls : AnalyzeFail(c)
  \/ GumResolve
  \/ GumReject
  \/ \E at \in {"ctx", "recorder"} : SetupThrow(at)
  \/ \E resolved \in BOOLEAN : GhostGumSettle(resolved)
  \/ PrepTick
  \/ PrepDoneEffect
  \/ SkipPrep
  \/ StartRecording
  \/ StopRecording
  \/ AutoStopEffect
  \/ RecTick
  \/ AddTime
  \/ StopEvent(1)
  \/ AnalyzingEffect(Rotated(0))

\* the pending effects and the recorder's stop event are taken without any user
\* action: React runs a pending effect, the browser delivers a queued event
FairStageSpec ==
  /\ Init /\ [][StageNext]_vars
  /\ WF_vars(PrepDoneEffect)
  /\ WF_vars(AutoStopEffect)
  /\ WF_vars(StopEvent(1))

\* Onboarding and the way back to it: interests and modes are picked, a session
\* is started and canceled
OnboardingNext ==
  \/ \E interest \in INTERESTS : ToggleInterest(interest)
  \/ \E m \in SessionModes : SelectMode(m)
  \/ \E m \in SessionModes : OnboardingComplete(m)
  \/ BackToOnboarding
  \/ \E config \in Configs : SessionStart(config)
  \/ Cancel

OnboardingSpec == Init /\ [][OnboardingNext]_vars

\* The recording controller: as StageNext, with the start of the recorder
\* failing, startRecording called past its button, and the chunks arriving.
ControllerNext ==
  \/ StageNext
  \/ StartThrow
  \/ StartCall
  \/ DataAvailable

ControllerSpec == Init /\ [][ControllerNext]_vars

\* The analysis overlay: a session is recorded without preparation and handed
\* over, and the overlay runs until the Analyzer call settles, over again.
OverlayNext ==
  \/ \E m \in Modes : OnboardingComplete(m)
  \/ \E config \in { c \in Configs : c.prepTimeSeconds = 0 } : SessionStart(config)
  \/ GumResolve
  \/ StartRecording
  \/ StopRecording
  \/ StopEvent(1)
  \/ AnalyzingEffect(Rotated(0))
  \/ ProgressTick
  \/ TipTick
  \/ \E c \in calls : AnalyzeOk(c, 1, TRUE)
  \/ \E c \in calls : AnalyzeFail(c)
  \/ Restart

OverlaySpec == Init /\ [][OverlayNext]_vars

\* The tip carousel: as OverlaySpec, with every shuffle and without the
\* progress interval.
TipNext ==
  \/ \E m \in Modes : OnboardingComplete(m)
  \/ \E config \in { c \in Configs : c.prepTimeSeconds = 0 } : SessionStart(config)
  \/ GumResolve
  \/ StartRecording
  \/ StopRecording
  \/ StopEvent(1)
  \/ \E shuffled \in Shuffles : AnalyzingEffect(shuffled)
  \/ TipTick
  \/ \E c \in calls : AnalyzeOk(c, 1, TRUE)
  \/ \E c \in calls : AnalyzeFail(c)
  \/ Restart

TipSpec == Init /\ [][TipNext]_vars

\* historyService on every kind of stored content
StartStores ==
  { [kind |-> k, items |-> <<>>] : k \in StoreKinds }
  \cup { [kind |-> "list", items |-> <<[id |-> 0, date |-> 1]>>] }

HistoryInit ==
  /\ InitSession
  /\ pace = NoPace /\ codec = NoCodec
  /\ \E st \in StartStores, order \in DateOrders :
       /\ store = st.kind
       /\ history = st.items
       /\ appendLog = [start |-> st, order |-> order, items |-> <<>>, failed |-> {}]

HistoryNext == \E writeOk \in BOOLEAN : AppendItem(writeOk)

HistorySpec == HistoryInit /\ [][HistoryNext]_vars

\* the pace computation on every transcript, language and duration
PaceInit ==
  /\ InitSession
  /\ history = <<>> /\ store = "absent" /\ appendLog = NoLog /\ codec = NoCodec
  /\ \E t \in Transcripts, l \in Languages, h \in HalfSeconds, w \in RemoteWpm :
       pace = [transcript |-> t, language |-> l, half |-> h, wpm |-> w,
               done |-> FALSE]

PaceNext == AnalyzeSpeechPace

PaceSpec == PaceInit /\ [][PaceNext]_vars

\* the codec negotiation on every runtime
CodecInit ==
  /\ InitSession
  /\ history = <<>> /\ store = "absent" /\ appendLog = NoLog /\ pace = NoPace
  /\ \E supported \in SUBSET KnownTypes :
       \E default \in PlatformDefaults(supported) :
         codec = [NoCodec EXCEPT !.supported = supported, !.default = default]

CodecNext == CreateRecorder \/ BuildBlob

CodecSpec == CodecInit /\ [][CodecNext]_vars

\* ------------------------------------------------------------------ claims
InStage == step = "STAGE"
SameStage == step = "STAGE" /\ step' = "STAGE"

\* C1: with prepTimeSeconds = 0 the Stage is never in PREP, and a Stage instance
\* that has left PREP never re-enters it.
C1_PrepOnlyIfConfigured ==
  /\ [](InStage /\ sessionConfig.prepTimeSeconds = 0 => ~isPrep)
  /\ [][SameStage /\ ~isPrep => ~isPrep']_vars
C1_Witness ==
  InStage /\ sessionConfig.prepTimeSeconds = 0 /\ ~isPrep /\ isRecording

\* C2: no step taken while the Stage is in PREP changes timeLeft; timeLeft only
\* decreases in a state that is not PREP and is recording.
C2_NoCountdownInPrep ==
  [][SameStage =>
       /\ (isPrep => timeLeft' = timeLeft)
       /\ (timeLeft' < timeLeft => ~isPrep /\ isRecording)]_vars
C2_Witness ==
  /\ InStage /\ isPrep /\ prepTimeLeft < sessionConfig.prepTimeSeconds
  /\ isReady /\ timeLeft = sessionConfig.durationSeconds

C5_TracksStoppedAfterHandOver ==
  /\ (finished => tracks = "stopped")
  /\ ~orphan.live
C5_Witness ==
  ev = "StopEvent" /\ finished /\ tracks = "stopped" /\ isAnalyzing

\* C6: once the result is handed over, the audio context is closed and no volume
\* frame is scheduled, while the Stage is still mounted.
C6_FullCleanupAtStop ==
  finished => (tracks = "stopped" /\ audioCtx = "closed" /\ ~raf)

\* C7: whenever the session is not in STAGE, and after any late resolution of a
\* device request of an unmounted Stage, no track of an earlier Stage instance is
\* live, no audio context of one is open and no volume frame of one is scheduled.
C7_AllReleasedOnExit ==
  ~orphan.live /\ ~orphan.ctx /\ ~orphan.raf
C7_Witness ==
  ev = "GhostGumResolve" /\ step = "SETUP" /\ ghostGum = 0

\* C8: in every Stage state before the hand-over a cancel step is enabled.
C8_CancelAlwaysAvailable ==
  (InStage /\ ~finished) => ENABLED Cancel

\* C9: after a failed Analyzer call the session is in SETUP, not analyzing, with
\* no result attached and no recorded blob or duration held.
C9_AfterFailure ==
  ev = "AnalyzeFail" =>
    /\ step = "SETUP" /\ ~isAnalyzing /\ analysisResult = NULL
    /\ currentAudioBlob = NULL /\ recordedDuration = 0

C11_NoStaleResult ==
  /\ [][step # "STAGE" /\ step' = "STAGE" => analysisResult' = NULL]_vars
  /\ [][analysisResult # NULL => analysisResult' \in {analysisResult, NULL}]_vars

\* C12: a history load is taken in SETUP and ends in ANALYSIS with the
\* fullResult of one item of the log attached, a config with that item's topic
\* and mode, no blob and a recorded duration of 0, whatever was held before; it
\* issues no Analyzer call and leaves the log as it was.
C12_LoadHistory ==
  [][ev' = "LoadHistory" =>
       /\ step = "SETUP" /\ step' = "ANALYSIS"
       /\ \E i \in 1..Len(history) :
            /\ analysisResult' = history[i].fullResult
            /\ sessionConfig'.topic = history[i].topic
            /\ sessionConfig'.mode = history[i].mode
       /\ currentAudioBlob' = NULL /\ recordedDuration' = 0
       /\ calls' = calls /\ isAnalyzing' = isAnalyzing
       /\ history' = history /\ store' = store]_vars
\* a load after two recordings of which one was saved
C12_Witness ==
  /\ ev = "LoadHistory" /\ step = "ANALYSIS"
  /\ nRecs = 2 /\ Len(history) = 1 /\ calls = {} /\ stops = <<>>
  /\ analysisResult = history[1].fullResult
  /\ sessionConfig.topic = history[1].topic
  /\ currentAudioBlob = NULL /\ recordedDuration = 0

\* C13: a restart is taken in ANALYSIS and ends in SETUP with no result, no blob
\* and a recorded duration of 0, and changes neither the user preferences nor
\* the history log.
C13_Restart ==
  [][ev' = "Restart" =>
       /\ step = "ANALYSIS" /\ step' = "SETUP"
       /\ analysisResult' = NULL /\ currentAudioBlob' = NULL
       /\ recordedDuration' = 0
       /\ userPrefs' = userPrefs
       /\ history' = history /\ store' = store]_vars
\* a restart from the analysis of a recording that was saved
C13_Witness ==
  /\ ev = "Restart" /\ step = "SETUP" /\ nRecs = 1 /\ Len(history) = 1
  /\ analysisResult = NULL /\ currentAudioBlob = NULL /\ recordedDuration = 0

\* C14: the progress value is 0 when an analysis starts, no progress tick lowers
\* it, and it is at most 99 in every reachable state.
C14_ProgressHeldAt99 ==
  /\ [](progress <= HoldAt * Scale)
  /\ [][ev' = "AnalyzingEffect" => progress' = 0]_vars
  /\ [][ev' = "ProgressTick" => progress' >= progress]_vars

Listed == GetHistory(store, history)
Appended == appendLog.items
NotFailed(item) == item.id \notin appendLog.failed
Written == SelectSeq(appendLog.items, NotFailed)
StartedEmpty ==
  appendLog.start.kind \in {"absent", "list"} /\ appendLog.start.items = <<>>
Reverse(s) == [i \in 1..Len(s) |-> s[Len(s) + 1 - i]]

\* C17 as stated: from an empty log, list() returns the last min(n, 20) of the n
\* items passed to append, the most recent first.
C17_LastTwentyAppended ==
  StartedEmpty =>
    GetHistoryIsList(store) /\ Listed = Reverse(TakeLast(Appended, HistoryCap))

\* C17 as amended: from an empty log, list() returns the last min(n, 20) of the
\* items whose write did not fail, the most recent first, whatever their dates.
C17_LastTwentyWritten ==
  StartedEmpty =>
    GetHistoryIsList(store) /\ Listed = Reverse(TakeLast(Written, HistoryCap))
\* 25 appends, the dates falling, have left the items 25 down to 6
C17_Witness ==
  /\ StartedEmpty /\ appendLog.order = "desc"
  /\ Len(Appended) = 25 /\ appendLog.failed = {}
  /\ Len(Listed) = HistoryCap /\ Listed[1].id = 25 /\ Listed[HistoryCap].id = 6

\* C18: list() returns the empty list when the storage is absent, unreadable or
\* unparsable, and an append whose write succeeds on a corrupt storage
\* (unparsable, or parsable and not a list) leaves exactly the appended item.
C18_CorruptStorageEmpty ==
  /\ [](store \in {"absent", "unreadable", "garbage"} =>
          GetHistoryIsList(store) /\ Listed = <<>>)
  /\ [][(/\ ev' = "AppendItem"
         /\ store \in {"garbage", "foreign"}
         /\ Len(appendLog'.items) \notin appendLog'.failed)
        => /\ store' = "list"
           /\ history' = <<appendLog'.items[Len(appendLog'.items)]>>]_vars

\* C19: a successful Analyzer call whose history write fails leaves the log and
\* the store as they were and ends in ANALYSIS with its result attached and
\* analyzing = false.
C19_WriteFailureSilent ==
  [][(\E c \in calls, result \in Results : AnalyzeOk(c, result, FALSE)) =>
       /\ history' = history /\ store' = store
       /\ step' = "ANALYSIS" /\ analysisResult' \in Results /\ ~isAnalyzing']_vars
\* the result attached by the last success is not in the log, which holds the
\* item of an earlier success
C19_Witness ==
  /\ ev = "AnalyzeOk" /\ step = "ANALYSIS" /\ ~isAnalyzing
  /\ Len(history) = 1 /\ analysisResult # history[1].fullResult

\* the count of the claim: the words between whitespace, or the characters
\* that are neither whitespace nor punctuation
Words(t) ==
  Cardinality({ i \in 1..Len(t) : ~IsSpace(t[i]) /\ (i = 1 \/ IsSpace(t[i - 1])) })
IsContent(c) == c \in {"han", "kana", "a"}
ClaimedCount(transcript, language) ==
  IF IsChinese(language) THEN Len(SelectSeq(transcript, IsContent))
  ELSE Words(transcript)

\* C20: for a duration of at least one second, the wpm of the result is
\* round(count / (durationSeconds / 60)), whatever wpm the remote supplied.
C20_PaceFormula ==
  (pace.done /\ pace.half >= 2) =>
    pace.wpm = Round(120 * ClaimedCount(pace.transcript, pace.language), pace.half)

\* C21: in every state in which media setup has failed and the failure was
\* reported (the device request was rejected, or the audio graph or the recorder
\* could not be built on an acquired stream), no acquired track is live.
C21_NoDanglingHardware ==
  (InStage /\ media = "failed") => tracks # "live"

\* C22: after a failed media setup the Stage instance is never ready, is never
\* recording and has no recorder, the device request is not repeated (the
\* failure stays until the instance is unmounted), and the failure was reported
\* by the instance while it was shown.
C22_SetupFailureFatal ==
  /\ [](InStage /\ media = "failed" =>
          /\ ~isReady /\ ~isRecording /\ recorder = "none"
          /\ notice = "media")
  /\ [][SameStage /\ media = "failed" => media' = "failed"]_vars
  /\ [][ev' \in {"GumReject", "SetupThrow"} =>
          media = "pending" /\ media' = "failed" /\ notice' = "media"]_vars
\* the Stage has left PREP after a failure on an acquired stream
C22_Witness ==
  /\ InStage /\ media = "failed" /\ notice = "media" /\ tracks = "live"
  /\ sessionConfig.prepTimeSeconds > 0 /\ ~isPrep

\* C23: when recorder.start throws, the failure is reported and the Stage is
\* left ready and not recording, with an inactive recorder, no recording
\* interval and the remaining time unchanged; after such a failure a start
\* request is enabled whenever the Stage is not recording.
C23_StartFailureRecoverable ==
  /\ [][ev' = "StartThrow" =>
          /\ notice' = "start"
          /\ ~isRecording' /\ recorder' = "inactive" /\ isReady'
          /\ recTimers' = 0 /\ timeLeft' = timeLeft]_vars
  /\ [](InStage /\ notice = "start" /\ ~isRecording /\ ~EffectPending
          /\ nRecs < MaxRecs => ENABLED StartRecording)
\* a recording runs that was started after a failed start on the same Stage
C23_Witness ==
  /\ InStage /\ ev = "StartRecording" /\ notice = "start"
  /\ isRecording /\ recorder = "recording" /\ recTimers = 1

\* C24: a call of startRecording while the recorder does not exist yet or is
\* not inactive changes nothing: the chunks, the start timestamp, the recording
\* flag, the remaining time, the recorder and the alerts are as before.
C24_StartIgnoredUnlessInactive ==
  [][StartCall =>
       /\ recorder # "inactive"
       /\ chunks' = chunks /\ startTime' = startTime
       /\ isRecording' = isRecording /\ timeLeft' = timeLeft
       /\ recorder' = recorder /\ notice' = notice /\ nRecs' = nRecs]_vars
\* the call was made during a recording that has chunks and has been ticking
C24_Witness ==
  /\ InStage /\ ev = "StartCall" /\ recorder = "recording" /\ isRecording
  /\ chunks > 0 /\ startTime = nRecs /\ recTicks >= 1

\* C25: a stop request is only taken while the recorder is recording and
\* otherwise queues nothing; a Stage instance hands (blob, duration) over at
\* most once; and once it has handed them over no recording is started on it.
C25_FinishOnceThenDone ==
  /\ [][ev' \in {"StopRecording", "AutoStopEffect"} =>
          \/ recorder = "recording" /\ Len(stops') = Len(stops) + 1
          \/ recorder # "recording" /\ stops' = stops]_vars
  /\ [][(ev' = "StopEvent" /\ SameStage /\ ~Head(stops).ghost) => ~finished]_vars
  /\ [][SameStage /\ finished => ev' # "StartRecording"]_vars

\* the preparation countdown: the time left stays within 0..prepTimeSeconds, only
\* a prep tick changes it, by one, in PREP; PREP is left only by skipPrep or by
\* the effect that runs at zero, which does run
PrepCountdown ==
  /\ [](InStage => prepTimeLeft \in 0..sessionConfig.prepTimeSeconds)
  /\ [][ev' = "PrepTick" =>
          isPrep /\ isPrep' /\ prepTimeLeft > 0 /\ prepTimeLeft' = prepTimeLeft - 1]_vars
  /\ [][SameStage /\ prepTimeLeft' # prepTimeLeft => ev' = "PrepTick"]_vars
  /\ [][SameStage /\ isPrep /\ ~isPrep' =>
          \/ ev' = "SkipPrep"
          \/ ev' = "PrepDoneEffect" /\ prepTimeLeft = 0]_vars
  /\ [][ev' = "SkipPrep" => isPrep /\ ~isPrep']_vars
  /\ (InStage /\ isPrep /\ prepTimeLeft = 0) ~> ~(InStage /\ isPrep)

\* C26 as stated: the preparation countdown, and the step that leaves PREP
\* enters RECORDING: the Stage is recording and the recording interval runs.
C26_PrepThenRecording ==
  /\ PrepCountdown
  /\ [][SameStage /\ isPrep /\ ~isPrep' =>
          isRecording' /\ recorder' = "recording" /\ recTimers' = 1]_vars

\* C26 as amended: the preparation countdown, and the step that leaves PREP
\* leaves the Stage not recording, with no recording interval and the remaining
\* time at durationSeconds; recording begins only by a start request taken
\* outside PREP on a ready Stage, and the first one of a Stage begins the
\* countdown from durationSeconds.
C26_PrepThenArmed ==
  /\ PrepCountdown
  /\ [][SameStage /\ isPrep /\ ~isPrep' =>
          /\ ~isRecording' /\ recorder' # "recording" /\ recTimers' = 0
          /\ timeLeft' = sessionConfig.durationSeconds]_vars
  /\ [][SameStage /\ ~isRecording /\ isRecording' =>
          ev' = "StartRecording" /\ ~isPrep /\ isReady]_vars
  /\ [][ev' = "StartRecording" /\ startTime = 0 =>
          timeLeft' = sessionConfig.durationSeconds /\ recTimers' = 1]_vars
\* a recording started after the preparation time ran out
C26_Witness ==
  /\ InStage /\ ev = "StartRecording" /\ isRecording /\ sessionConfig.prepTimeSeconds > 0
  /\ prepTimeLeft = 0 /\ timeLeft = sessionConfig.durationSeconds /\ recTimers = 1

\* C27: every hand-over issues exactly one Analyzer call, with the blob and the
\* duration handed over and the config of the Stage that made the recording; a
\* call is issued by a hand-over only (none after a failure); and at most one
\* call is in flight at any time.
C27_OneCallPerHandOver ==
  /\ [][ev' = "StopEvent" =>
          \E call \in calls' \ calls :
            /\ calls' = calls \cup {call}
            /\ call.blob = currentAudioBlob' /\ call.duration = recordedDuration'
            /\ call.config = Head(stops).config]_vars
  /\ [][calls' \ calls # {} => ev' = "StopEvent"]_vars
  /\ [](Cardinality(calls) <= 1)

\* C28: completing onboarding is taken in ONBOARDING and ends in SETUP; the
\* preferences hold at least one topic, ["General"] when no interest is
\* selected and the selected interests otherwise, and the selected mode; the
\* session config takes that mode and keeps its other fields.
C28_OnboardingComplete ==
  [][ev' = "OnboardingComplete" =>
       /\ step = "ONBOARDING" /\ step' = "SETUP"
       /\ Len(userPrefs'.topics) >= 1
       /\ userPrefs'.topics =
            (IF selectedInterests = <<>> THEN <<"General">> ELSE selectedInterests)
       /\ userPrefs'.preferredMode = selectedMode
       /\ sessionConfig'.mode = selectedMode
       /\ sessionConfig'.topic = sessionConfig.topic
       /\ sessionConfig'.durationSeconds = sessionConfig.durationSeconds
       /\ sessionConfig'.prepTimeSeconds = sessionConfig.prepTimeSeconds]_vars
\* onboarding completed a second time, with no interest and another mode, on the
\* config of a session that was canceled
C28_Witness ==
  /\ ev = "OnboardingComplete" /\ step = "SETUP"
  /\ userPrefs = [topics |-> <<"General">>, preferredMode |-> "DEBATE"]
  /\ sessionConfig.topic = "t2" /\ sessionConfig.mode = "DEBATE"
  /\ sessionConfig.prepTimeSeconds = 2

\* C29: at most one one-second interval is live in total; a prep interval is
\* live only in PREP with time left and a recording interval only while
\* recording outside PREP with time left, so that every way out of a phase
\* (countdown end, skip, stop, auto-stop, unmount) leaves no interval of that
\* phase; and the ticks of a phase come from exactly one interval.
C29_OnePhaseTimer ==
  /\ prepTimers + recTimers <= 1
  /\ prepTimers > 0 => InStage /\ isPrep /\ prepTimeLeft > 0
  /\ recTimers > 0 => InStage /\ ~isPrep /\ isRecording /\ timeLeft > 0
  /\ PrepTimerActive => prepTimers = 1
  /\ RecTimerActive => recTimers = 1
\* the automatic stop of a recording that followed a preparation countdown
C29_Witness ==
  /\ ev = "AutoStopEffect" /\ InStage /\ sessionConfig.prepTimeSeconds > 0
  /\ prepTimeLeft = 0 /\ recTicks >= 1 /\ timeLeft = 0
  /\ prepTimers = 0 /\ recTimers = 0

\* the entries of the priority list that the runtime supports, by position
Listed4 == { i \in 1..4 : MimeTypes[i] \in codec.supported }
FirstListed == CHOOSE i \in Listed4 : \A j \in Listed4 : i <= j

\* C30: the negotiation returns the first entry of the priority list that the
\* runtime supports and the recorder is created with it; it returns no explicit
\* type, and the recorder is created without options, exactly when none of the
\* four is supported; the blob is tagged with the negotiated type (with the type
\* the recorder records in, or not at all, when there is no explicit type).
C30_CodecNegotiation ==
  /\ codec.phase # "probe" =>
       /\ Listed4 # {} =>
            /\ codec.mimeType = MimeTypes[FirstListed]
            /\ codec.options = [mimeType |-> codec.mimeType]
            /\ codec.recorderType = codec.mimeType
       /\ (codec.mimeType = "") <=> (Listed4 = {})
       /\ (codec.options.mimeType = "undefined") <=> (Listed4 = {})
  /\ codec.phase = "blob" =>
       codec.blobType \in {codec.mimeType, codec.recorderType}

\* C31: the duration handed over is the clock delta when that is positive, and
\* otherwise the configured duration minus the remaining time at the stop (for
\* the last recording of the mounted Stage the remaining time has not changed
\* since its stop).
C31_FallbackDuration ==
  /\ [][(\E delta \in ClockDeltas : delta > 0 /\ StopEvent(delta)) =>
          recordedDuration' > 0]_vars
  /\ [][(/\ \E delta \in ClockDeltas : delta <= 0 /\ StopEvent(delta)
         /\ step = "STAGE" /\ ~Head(stops).ghost /\ Head(stops).rec = nRecs
         /\ ~isRecording)
        => recordedDuration' = sessionConfig.durationSeconds - timeLeft]_vars

\* C32: analyzing implies step = STAGE (it is false in ONBOARDING, SETUP and
\* ANALYSIS), and no navigation step (cancel, restart, history load, back to
\* onboarding) is taken while an Analyzer call is in flight.
C32_AnalyzingOnlyInStage ==
  /\ [](isAnalyzing => step = "STAGE")
  /\ [][ev' \in {"Cancel", "Restart", "LoadHistory", "BackToOnboarding"} =>
          calls = {}]_vars

\* C33: every state whose step is ANALYSIS has a result attached, whether it was
\* entered by a successful Analyzer call or by loading a history item.
C33_ResultInAnalysis ==
  step = "ANALYSIS" => analysisResult # NULL

\* a history item is loaded after a restart cleared the result of a successful call
C33_Witness ==
  /\ step = "ANALYSIS" /\ ev = "LoadHistory"
  /\ analysisResult \in Results /\ currentAudioBlob = NULL

\* Sessions of several modes: a mode is selected in onboarding, a session of
\* one second is recorded without preparation and analyzed, and the saved items
\* are loaded from the history view and restarted.
ModeConfigs ==
  { [topic |-> "t1", mode |-> m, durationSeconds |-> 1, prepTimeSeconds |-> 0] :
      m \in SessionModes }

ModeNext ==
  \/ \E m \in SessionModes : SelectMode(m)
  \/ \E m \in SessionModes : OnboardingComplete(m)
  \/ BackToOnboarding
  \/ \E config \in ModeConfigs : SessionStart(config)
  \/ GumResolve
  \/ StartRecording
  \/ StopRecording
  \/ StopEvent(1)
  \/ AnalyzingEffect(Rotated(0))
  \/ \E c \in calls : AnalyzeOk(c, 1, TRUE)
  \/ \E i \in 1..HistoryCap : LoadHistory(i)
  \/ Restart

ModeSpec == Init /\ [][ModeNext]_vars

\* C34: on every entry to STAGE the mode of the session config is the preferred
\* mode of the most recent onboarding (the preferences change in no other step),
\* also after a history item of another mode was loaded and restarted.
C34_StageModeIsPreferred ==
  /\ [][userPrefs' # userPrefs => ev' = "OnboardingComplete"]_vars
  /\ [][ev' = "OnboardingComplete" => userPrefs'.preferredMode = selectedMode]_vars
  /\ [][step # "STAGE" /\ step' = "STAGE" =>
          sessionConfig'.mode = userPrefs'.preferredMode]_vars

\* a Stage entered in one mode while the history holds an item of another mode
C34_Witness ==
  /\ step = "STAGE" /\ ev = "SessionStart"
  /\ \E i \in 1..Len(history) : history[i].mode # sessionConfig.mode

C36_RecordingOnlyWhenReady ==
  step = "STAGE" /\ isRecording => ~isPrep /\ isReady /\ recorder # "none"

\* a recording started after the preparation of a session that has one
C36_Witness ==
  /\ step = "STAGE" /\ isRecording /\ ev = "StartRecording"
  /\ sessionConfig.prepTimeSeconds > 0 /\ recorder = "recording"

\* C37: the chunks are emptied at each start, and the references that onstop
\* reads (chunksRef, startTimeRef) are those of the recording being finalized:
\* between the stop request and the stop event of a recording no step changes
\* them, and at the stop event the start time is the one of that recording.
C37_ChunksOfFinalizedRecording ==
  /\ [][ev' = "StartRecording" => chunks' = 0 /\ startTime' = nRecs']_vars
  /\ [][step = "STAGE" /\ stops # <<>> /\ ~Head(stops).ghost =>
          chunks' = chunks /\ startTime' = startTime]_vars
  /\ [][ev' = "StopEvent" /\ step = "STAGE" /\ ~Head(stops).ghost =>
          startTime = Head(stops).rec]_vars

\* The topic of a session: a mode is selected in onboarding and SessionSetup
\* requests topics, which are answered in any order, until the Stage is entered.
TopicNext ==
  \/ \E m \in SessionModes : SelectMode(m)
  \/ \E m \in SessionModes : OnboardingComplete(m)
  \/ \E n \in {1, 2} : SetSetupStep(n)
  \/ \E b \in BOOLEAN : SetIsCustomTopic(b)
  \/ \E theme \in COMEDY_THEMES : SetComedyTheme(theme)
  \/ RefreshTopic
  \/ \E r \in requests : TopicResponse(r)
  \/ EnterStage

TopicSpec == Init /\ [][TopicNext]_vars

\* C38: in session setup the loading flag is true while a topic request is in
\* flight, the topic shown once all requests have resolved is the response to
\* the most recent request, and so is the generated topic passed to the Stage.
C38_LatestTopicShown ==
  /\ [](step = "SETUP" /\ requests # {} => loading)
  /\ [](step = "SETUP" /\ requests = {} /\ issued > 0 => topic.id = issued)
  /\ [][ev' = "SessionStart" /\ ~isCustomTopic =>
          sessionConfig'.topic.id = issued]_vars

====
